---- MODULE Spec2Model ----
(***************************************************************************)
(* Orbitr backend: API key lifecycle (api_key_management.py), the abuse    *)
(* tracker (security_middleware.py, SecurityMetrics) and the request path  *)
(* (SecurityMiddleware.dispatch followed by app.verify_api_key).           *)
(*                                                                         *)
(* Time.  time.time() is a float number of seconds; the model's clock      *)
(* `now' counts ticks of 1/TicksPerSecond second, so that int(...), which  *)
(* truncates to whole seconds, is visible.  Timestamps the code stores     *)
(* with int(...) are whole seconds; timestamps it stores as floats         *)
(* (failure history, lockout expiry) are ticks.                            *)
(*                                                                         *)
(* Optional values.  None is <<>> and a present value v is <<v>>.          *)
(***************************************************************************)
EXTENDS Integers, Sequences, FiniteSets, TLC

VARIABLES
    now,            \* the wall clock, in ticks
    keys,           \* APIKeyManager.keys: insertion-ordered dict, as a sequence of APIKey
    keys_file,      \* the encrypted key file: None (missing) or Some(ciphertext)
    disk,           \* whether the key file can be written: "ok", "denied" or "full"
    events,         \* what SecurityLogger has logged for the key manager
    nissued,        \* how many (key_id, secret) pairs secrets.token_urlsafe has drawn
    revoked,        \* history: the ids revoke_api_key has been called on while known
    ret,            \* the outcome of the last call: op, args, outcome, value
    security_config,        \* SecurityConfig: environment, api_key, api_key_expiry, auth_config
    failed_auth_attempts,   \* SecurityMetrics: per ip, the deque of failure timestamps
    blocked_ips,            \* SecurityMetrics: per ip, None or Some(time the block ends)
    last_cleanup,           \* SecurityMetrics.last_cleanup
    failures,               \* history: per ip, the times log_auth_failure was called for it
    current_generations,    \* app.py: the global counter of generations in flight
    cache,                  \* CACHE_DIR: per cache key, None or Some(the audio in the file)
    first_response,         \* history: per request, the first 200 response /generate gave
    workers,                \* threads inside validate_api_key: position and locals
    validated,              \* history: per key id, the validations that found it valid
    cleaner,                \* the thread schedule_key_cleanup starts: position and locals
    in_flight               \* requests past the middleware's checks, not yet at verify_api_key

keyVars == <<keys, keys_file, disk, events, nissued, revoked>>
gateVars == <<security_config, failed_auth_attempts, blocked_ips, last_cleanup,
              failures>>
appVars == <<current_generations, cache, first_response>>
threadVars == <<workers, validated, cleaner>>
flightVars == <<in_flight>>

-----------------------------------------------------------------------------
(* Bounds of the model *)

MaxKeys == 2
MaxDays == 1
MaxTicks == 1
MaxUsage == 2
TicksPerSecond == 2
MaxGateTicks == 2
MaxHours == 2
MaxFailures == 3
MaxSeed == 1
MaxTrackerTicks == 1
MaxOverflow == 2
MaxRecorded == 5
MaxWorkers == 2
MaxInFlight == 2

-----------------------------------------------------------------------------
(* Optional values and clock arithmetic *)

None == <<>>
Some(v) == <<v>>
Val(o) == o[1]

\* Python truthiness of an Optional[int]: None and 0 are false
Truthy(o) == o # None /\ Val(o) # 0

StartSeconds == 1000 * 1000
Ticks(seconds) == seconds * TicksPerSecond
\* int(x) for a non-negative float x given in ticks: whole seconds, truncated
IntSeconds(ticks) == ticks \div TicksPerSecond

DaySeconds == 24 * 3600
GraceSeconds == 24 * 3600
RetentionSeconds == 7 * 24 * 3600

-----------------------------------------------------------------------------
(* Identifiers, secrets and hashes *)

\* the n-th draw of secrets.token_urlsafe(16) and of f"orbitr_{token_urlsafe(32)}"
KeyId(n) == <<"id", n>>
Secret(n) == <<"orbitr_", n>>
\* draw 0 is never issued: an id or secret no record has
KeyIds == {KeyId(n) : n \in 0..MaxKeys}
Secrets == {Secret(n) : n \in 0..MaxKeys}

\* _hash_key: deterministic PBKDF2 of the secret with a fixed salt
hash_key(api_key) == <<"pbkdf2_sha256", "orbitr_api_salt_v1", api_key>>

DefaultPermissions == <<"generate", "cache", "health">>

-----------------------------------------------------------------------------
(* The insertion-ordered dict self.keys *)

Index(ks, key_id) ==
    IF \E i \in 1..Len(ks) : ks[i].key_id = key_id
    THEN CHOOSE i \in 1..Len(ks) : ks[i].key_id = key_id
    ELSE 0

Has(ks, key_id) == Index(ks, key_id) # 0
Get(ks, key_id) == ks[Index(ks, key_id)]

\* self.keys[key_id] = obj : replaces in place, or appends a new entry
DictSet(ks, key_id, obj) ==
    IF Has(ks, key_id)
    THEN [ks EXCEPT ![Index(ks, key_id)] = obj]
    ELSE Append(ks, obj)

\* del self.keys[key_id]
DictDel(ks, key_id) ==
    SelectSeq(ks, LAMBDA k : k.key_id # key_id)

-----------------------------------------------------------------------------
(* APIKey *)

is_expired(k) ==
    IF k.expires_at = None
    THEN FALSE
    ELSE now > Ticks(Val(k.expires_at))

\* a validity check that forgets revocation
is_valid_unrevoked(k) == ~is_expired(k)

is_valid(k) == k.is_active /\ ~is_expired(k)

\* an update_usage that stamps the time and forgets the counter
update_usage_stamp_only(k) == [k EXCEPT !.last_used = Some(IntSeconds(now))]

update_usage(k) ==
    [k EXCEPT !.last_used = Some(IntSeconds(now)),
              !.usage_count = k.usage_count + 1]

-----------------------------------------------------------------------------
(* The manager's state as one value, so that a method can call another *)

Manager ==
    [keys |-> keys, file |-> keys_file, disk |-> disk, events |-> events, n |-> nissued]

Returned(m, v) == [m |-> m, outcome |-> "returned", value |-> v]
Raised(m, exc) == [m |-> m, outcome |-> "raised", value |-> Some(exc)]

\* JSON values: None is null, everything else is written with its type
JsonOptional(o) == IF o = None THEN <<"null">> ELSE <<"value", Val(o)>>
PyOptional(j) == IF j[1] = "null" THEN None ELSE Some(j[2])
JsonBool(b) == IF b THEN "true" ELSE "false"
PyBool(j) == j = "true"

\* dataclasses.asdict(key_obj) as the JSON object json.dumps writes
asdict(k) ==
    [key_id |-> k.key_id, key_hash |-> k.key_hash, created_at |-> k.created_at,
     expires_at |-> JsonOptional(k.expires_at), last_used |-> JsonOptional(k.last_used),
     usage_count |-> k.usage_count, is_active |-> JsonBool(k.is_active),
     permissions |-> k.permissions, name |-> JsonOptional(k.name)]

\* a reader that takes the dataclass default for is_active
APIKeyFromDict_default_active(d) ==
    [key_id |-> d.key_id, key_hash |-> d.key_hash, created_at |-> d.created_at,
     expires_at |-> PyOptional(d.expires_at), last_used |-> PyOptional(d.last_used),
     usage_count |-> d.usage_count, is_active |-> TRUE,
     permissions |-> d.permissions, name |-> PyOptional(d.name)]

\* APIKey(**key_dict) for an object json.loads has read
APIKeyFromDict(d) ==
    [key_id |-> d.key_id, key_hash |-> d.key_hash, created_at |-> d.created_at,
     expires_at |-> PyOptional(d.expires_at), last_used |-> PyOptional(d.last_used),
     usage_count |-> d.usage_count, is_active |-> PyBool(d.is_active),
     permissions |-> d.permissions, name |-> PyOptional(d.name)]

\* json.dumps of {key_id: asdict(key_obj)} in dict order, and json.loads of it
json_dumps(ks) == [i \in 1..Len(ks) |-> <<ks[i].key_id, asdict(ks[i])>>]
json_loads(data) == [i \in 1..Len(data) |-> APIKeyFromDict(data[i][2])]

\* Fernet with the manager's master key; a token made with another key, or a
\* file that is no token at all, does not decrypt (InvalidToken)
MasterKey == "encryption.key"
fernet_encrypt(plain) == [cipher |-> "fernet", key |-> MasterKey, plain |-> plain]
Decrypts(blob) == blob.cipher = "fernet" /\ blob.key = MasterKey
fernet_decrypt(blob) == blob.plain
GarbageBlob == [cipher |-> "garbage", key |-> "", plain |-> <<>>]
ForeignBlob == [cipher |-> "fernet", key |-> "another.key", plain |-> <<>>]

\* a save_keys that swallows the error of a failed write
save_keys_swallowing(m) ==
    IF m.disk = "ok"
    THEN Returned([m EXCEPT !.file = Some(fernet_encrypt(json_dumps(m.keys)))], None)
    ELSE Returned(m, None)

\* save_keys: open(keys_file, 'wb') and write.  When the file cannot be opened
\* nothing is written; when the write fails after open has truncated the file,
\* what is left is no token.  Either way OSError reaches the caller.
save_keys(m) ==
    IF m.disk = "ok"
    THEN Returned([m EXCEPT !.file = Some(fernet_encrypt(json_dumps(m.keys)))], None)
    ELSE IF m.disk = "denied"
    THEN Raised(m, "OSError")
    ELSE Raised([m EXCEPT !.file = Some(GarbageBlob)], "OSError")

\* the map a file holds for a manager with the master key
FileKeys(file) ==
    IF file = None \/ ~Decrypts(Val(file))
    THEN <<>>
    ELSE json_loads(fernet_decrypt(Val(file)))

\* SecurityLogger.log_security_event(event) reads event.severity: a dict has no
\* such attribute, and the call raises AttributeError before anything is logged
log_security_event(m, event) ==
    IF event.kind = "SecurityLogEvent"
    THEN Returned([m EXCEPT !.events = m.events \cup {event}], None)
    ELSE Raised(m, "AttributeError")

DictEvent(event_type, key_id) ==
    [kind |-> "dict", event_type |-> event_type, key_id |-> key_id]

-----------------------------------------------------------------------------
(* APIKeyManager *)

\* generate_api_key, given what the two calls of secrets.token_urlsafe return
generate_api_key_drawing(m, name, expires_in_days, permissions, api_key, key_id) ==
    LET expires_at ==
            IF Truthy(expires_in_days)
            THEN Some(IntSeconds(now + Ticks(Val(expires_in_days) * DaySeconds)))
            ELSE None
        key_obj == [key_id |-> key_id,
                    key_hash |-> hash_key(api_key),
                    created_at |-> IntSeconds(now),
                    expires_at |-> expires_at,
                    last_used |-> None,
                    usage_count |-> 0,
                    is_active |-> TRUE,
                    permissions |-> IF permissions = None \/ Val(permissions) = <<>>
                                    THEN DefaultPermissions
                                    ELSE Val(permissions),
                    name |-> name]
        m1 == [m EXCEPT !.keys = DictSet(m.keys, key_id, key_obj), !.n = m.n + 1]
        saved == save_keys(m1)
        logged == log_security_event(saved.m, DictEvent("api_key_generated", key_id))
    IN  IF saved.outcome = "raised"
        THEN saved
        ELSE IF logged.outcome = "raised"
        THEN logged
        ELSE Returned(logged.m, Some(<<key_id, api_key>>))

\* generate_api_key with tokens that no earlier call has drawn
generate_api_key(m, name, expires_in_days, permissions) ==
    generate_api_key_drawing(m, name, expires_in_days, permissions,
                             Secret(m.n + 1), KeyId(m.n + 1))

\* the first record, in dict order, whose hash matches: 0 when there is none
FirstMatch(ks, key_hash) ==
    IF \E i \in 1..Len(ks) : ks[i].key_hash = key_hash
    THEN CHOOSE i \in 1..Len(ks) :
            /\ ks[i].key_hash = key_hash
            /\ \A j \in 1..(i - 1) : ks[j].key_hash # key_hash
    ELSE 0

validate_api_key(m, api_key) ==
    LET i == FirstMatch(m.keys, hash_key(api_key))
    IN  IF i = 0
        THEN Returned(m, None)
        ELSE IF is_valid(m.keys[i])
        THEN LET m1 == [m EXCEPT !.keys[i] = update_usage(m.keys[i])]
                 saved == save_keys(m1)
             IN  IF saved.outcome = "raised"
                 THEN saved
                 ELSE Returned(saved.m, Some(saved.m.keys[i]))
        ELSE IF is_expired(m.keys[i])
        THEN LET logged == log_security_event(
                               m, DictEvent("api_key_expired_used", m.keys[i].key_id))
             IN  IF logged.outcome = "raised" THEN logged ELSE Returned(logged.m, None)
        ELSE Returned(m, None)

revoke_api_key(m, key_id) ==
    IF Has(m.keys, key_id)
    THEN LET m1 == [m EXCEPT !.keys[Index(m.keys, key_id)].is_active = FALSE]
             saved == save_keys(m1)
             logged == log_security_event(saved.m, DictEvent("api_key_revoked", key_id))
         IN  IF saved.outcome = "raised"
             THEN saved
             ELSE IF logged.outcome = "raised"
             THEN logged
             ELSE Returned(logged.m, Some(TRUE))
    ELSE Returned(m, Some(FALSE))

\* f"{old_key.name}_rotated" if old_key.name else None
RotatedName(name) ==
    IF name # None /\ Val(name) # "" THEN Some(Val(name) \o "_rotated") ELSE None

\* a rotation that goes on to stamp the grace expiry although issuing the new
\* key has raised
rotate_api_key_past_logging(m, key_id, expires_in_days) ==
    IF ~Has(m.keys, key_id)
    THEN Returned(m, None)
    ELSE LET old_key == Get(m.keys, key_id)
             gen == generate_api_key(m, RotatedName(old_key.name), expires_in_days,
                                     Some(old_key.permissions))
             m1 == [gen.m EXCEPT
                       !.keys[Index(gen.m.keys, key_id)].expires_at =
                           Some(IntSeconds(now + Ticks(GraceSeconds)))]
             saved == save_keys(m1)
         IN  IF saved.outcome = "raised"
             THEN saved
             ELSE log_security_event(saved.m, DictEvent("api_key_rotated", key_id))

rotate_api_key(m, key_id, expires_in_days) ==
    IF ~Has(m.keys, key_id)
    THEN Returned(m, None)
    ELSE LET old_key == Get(m.keys, key_id)
             gen == generate_api_key(m, RotatedName(old_key.name), expires_in_days,
                                     Some(old_key.permissions))
         IN  IF gen.outcome = "raised"
             THEN gen
             ELSE LET m1 == [gen.m EXCEPT
                                !.keys[Index(gen.m.keys, key_id)].expires_at =
                                    Some(IntSeconds(now + Ticks(GraceSeconds)))]
                      saved == save_keys(m1)
                      logged == log_security_event(
                                    saved.m, DictEvent("api_key_rotated", key_id))
                  IN  IF saved.outcome = "raised"
                      THEN saved
                      ELSE IF logged.outcome = "raised"
                      THEN logged
                      ELSE Returned(logged.m, gen.value)

\* load_keys, as __init__ calls it on the empty map it has just made.  In the
\* except branch the event is logged before the map is emptied.
load_keys(m) ==
    IF m.file = None
    THEN Returned(m, None)
    ELSE IF Decrypts(Val(m.file))
    THEN Returned([m EXCEPT !.keys = json_loads(fernet_decrypt(Val(m.file)))], None)
    ELSE LET logged == log_security_event(m, DictEvent("api_key_load_error", None))
         IN  IF logged.outcome = "raised"
             THEN logged
             ELSE Returned([logged.m EXCEPT !.keys = <<>>], None)

\* APIKeyManager(): a fresh manager over the same files
APIKeyManager(m) == load_keys([m EXCEPT !.keys = <<>>])

\* the ids cleanup_expired_keys collects, in dict order
\* a sweep that takes every record whose expiry has passed, without the 7 days
ExpiredKeys_at_expiry(ks) ==
    LET old == SelectSeq(ks, LAMBDA k :
                   /\ Truthy(k.expires_at)
                   /\ now > Ticks(Val(k.expires_at)))
    IN  [i \in 1..Len(old) |-> old[i].key_id]

ExpiredKeys(ks) ==
    LET old == SelectSeq(ks, LAMBDA k :
                   /\ Truthy(k.expires_at)
                   /\ now > Ticks(Val(k.expires_at) + RetentionSeconds))
    IN  [i \in 1..Len(old) |-> old[i].key_id]

\* for key_id in expired_keys: del self.keys[key_id]; log_security_event({...})
RECURSIVE CleanupLoop(_, _)
CleanupLoop(m, ids) ==
    IF ids = <<>>
    THEN Returned(m, None)
    ELSE LET m1 == [m EXCEPT !.keys = DictDel(m.keys, Head(ids))]
             logged == log_security_event(m1, DictEvent("api_key_cleaned_up", Head(ids)))
         IN  IF logged.outcome = "raised"
             THEN logged
             ELSE CleanupLoop(logged.m, Tail(ids))

cleanup_expired_keys(m) ==
    LET expired_keys == ExpiredKeys(m.keys)
        looped == CleanupLoop(m, expired_keys)
    IN  IF looped.outcome = "raised"
        THEN looped
        ELSE IF expired_keys # <<>>
        THEN save_keys(looped.m)
        ELSE looped

\* a key description that also carries the stored hash
KeyInfo_with_hash(k) ==
    [key_id |-> k.key_id, name |-> k.name, created_at |-> k.created_at,
     expires_at |-> k.expires_at, last_used |-> k.last_used,
     usage_count |-> k.usage_count, is_active |-> k.is_active,
     permissions |-> k.permissions, is_expired |-> is_expired(k),
     key_hash |-> k.key_hash]

\* the dict get_key_info builds: neither the hash nor the secret is in it
KeyInfo(k) ==
    [key_id |-> k.key_id, name |-> k.name, created_at |-> k.created_at,
     expires_at |-> k.expires_at, last_used |-> k.last_used,
     usage_count |-> k.usage_count, is_active |-> k.is_active,
     permissions |-> k.permissions, is_expired |-> is_expired(k)]

get_key_info(m, key_id) ==
    IF ~Has(m.keys, key_id)
    THEN Returned(m, None)
    ELSE Returned(m, Some(KeyInfo(Get(m.keys, key_id))))

\* [self.get_key_info(key_id) for key_id in self.keys.keys()]
list_keys(m) ==
    Returned(m, Some([i \in 1..Len(m.keys) |->
                         Val(get_key_info(m, m.keys[i].key_id).value)]))

RECURSIVE TotalUsage(_)
TotalUsage(ks) == IF ks = <<>> THEN 0 ELSE Head(ks).usage_count + TotalUsage(Tail(ks))

\* _get_permission_stats: per permission, the number of keys that hold it
get_permission_stats(m) ==
    LET held == UNION {{m.keys[i].permissions[j] : j \in 1..Len(m.keys[i].permissions)} :
                          i \in 1..Len(m.keys)}
    IN  [p \in held |->
            Cardinality({<<i, j>> \in (1..Len(m.keys)) \X (1..Len(DefaultPermissions)) :
                            /\ j <= Len(m.keys[i].permissions)
                            /\ m.keys[i].permissions[j] = p})]

get_usage_stats(m) ==
    Returned(m, Some(
        [total_keys |-> Len(m.keys),
         active_keys |-> Cardinality({i \in 1..Len(m.keys) : m.keys[i].is_active}),
         expired_keys |-> Cardinality({i \in 1..Len(m.keys) : is_expired(m.keys[i])}),
         total_usage |-> TotalUsage(m.keys),
         keys_by_permission |-> get_permission_stats(m)]))

\* module-level helper: None both for a rejected key and for a missing permission
validate_api_key_with_permissions(m, api_key, required_permission) ==
    LET v == validate_api_key(m, api_key)
    IN  IF v.outcome = "raised"
        THEN v
        ELSE IF v.value # None
                /\ \E i \in 1..Len(Val(v.value).permissions) :
                       Val(v.value).permissions[i] = required_permission
        THEN v
        ELSE Returned(v.m, None)

-----------------------------------------------------------------------------
(* Inputs *)

\* generate_api_key(name, expires_in_days, permissions): a TTL of 0 days, of one
\* day, and one that lies a retention period in the past
GenerateInputs ==
    { <<None, None, None>>,
      <<Some("prod"), Some(1), Some(<<"generate">>)>>,
      <<None, Some(0), Some(<<"generate">>)>>,
      <<Some("prod"), Some(0 - 7), None>> }
DaysInputs == {None, Some(1)}
Permissions == {"generate", "cache"}

-----------------------------------------------------------------------------
(* Actions of the key manager *)

\* ret when no call has been made at the current instant
NoCall == [op |-> "none", args |-> <<>>, outcome |-> "returned", value |-> None]

Call(op, args, r) ==
    /\ keys' = r.m.keys
    /\ keys_file' = r.m.file
    /\ disk' = r.m.disk
    /\ events' = r.m.events
    /\ nissued' = r.m.n
    /\ ret' = [op |-> op, args |-> args, outcome |-> r.outcome, value |-> r.value]
    /\ revoked' = IF op = "revoke_api_key" /\ Has(keys, args[1])
                  THEN revoked \cup {args[1]}
                  ELSE revoked
    /\ UNCHANGED <<now, gateVars, appVars, threadVars, flightVars>>

GenerateApiKey ==
    \E in \in GenerateInputs :
        /\ nissued < MaxKeys
        /\ Call("generate_api_key", in,
                generate_api_key(Manager, in[1], in[2], in[3]))

\* generate_api_key with tokens that an earlier call may have drawn already
GenerateApiKeyDrawn ==
    \E in \in GenerateInputs, a \in 1..MaxKeys, b \in 1..MaxKeys :
        /\ nissued < MaxKeys
        /\ Call("generate_api_key", in,
                generate_api_key_drawing(Manager, in[1], in[2], in[3],
                                         Secret(a), KeyId(b)))

ValidateApiKey ==
    \E api_key \in Secrets :
        /\ \A i \in 1..Len(keys) : keys[i].usage_count < MaxUsage
        /\ Call("validate_api_key", <<api_key>>, validate_api_key(Manager, api_key))

RevokeApiKey ==
    \E key_id \in KeyIds :
        Call("revoke_api_key", <<key_id>>, revoke_api_key(Manager, key_id))

RotateApiKey ==
    \E key_id \in KeyIds, days \in DaysInputs :
        /\ nissued < MaxKeys
        /\ Call("rotate_api_key", <<key_id, days>>, rotate_api_key(Manager, key_id, days))

CleanupExpiredKeys ==
    Call("cleanup_expired_keys", <<>>, cleanup_expired_keys(Manager))

GetKeyInfo ==
    \E key_id \in KeyIds :
        Call("get_key_info", <<key_id>>, get_key_info(Manager, key_id))

ListKeys == Call("list_keys", <<>>, list_keys(Manager))

GetUsageStats == Call("get_usage_stats", <<>>, get_usage_stats(Manager))

ValidateWithPermissions ==
    \E api_key \in Secrets, p \in Permissions :
        /\ \A i \in 1..Len(keys) : keys[i].usage_count < MaxUsage
        /\ Call("validate_api_key_with_permissions", <<api_key, p>>,
                validate_api_key_with_permissions(Manager, api_key, p))

\* the process starts again and constructs its manager
LoadKeys == Call("load_keys", <<>>, APIKeyManager(Manager))

\* the environment of the key file: writes start or stop failing, and the file
\* is removed, overwritten with something else, or left from another master key
Disks == {"ok", "denied", "full"}
DamagedFiles == {None, Some(GarbageBlob), Some(ForeignBlob)}

\* no manager exists after a construction that raised
Constructed == ~(ret.op = "load_keys" /\ ret.outcome = "raised")

DiskChanges ==
    \E d \in Disks :
        /\ d # disk
        /\ disk' = d
        /\ ret' = IF Constructed THEN NoCall ELSE ret
        /\ UNCHANGED <<now, keys, keys_file, events, nissued, revoked, gateVars, appVars, threadVars, flightVars>>

FileDamaged ==
    \E f \in DamagedFiles :
        /\ f # keys_file
        /\ keys_file' = f
        /\ ret' = IF Constructed THEN NoCall ELSE ret
        /\ UNCHANGED <<now, keys, disk, events, nissued, revoked, gateVars, appVars, threadVars, flightVars>>

\* the clock: half a second passes, or a day passes
ElapsedTicks == (now - Ticks(StartSeconds)) % Ticks(DaySeconds)
ElapsedDays == (now - Ticks(StartSeconds)) \div Ticks(DaySeconds)

Tick ==
    /\ ElapsedTicks < MaxTicks
    /\ now' = now + 1
    /\ ret' = NoCall
    /\ UNCHANGED <<keyVars, gateVars, appVars, threadVars, flightVars>>

Day ==
    /\ ElapsedDays < MaxDays
    /\ now' = now + Ticks(DaySeconds)
    /\ ret' = NoCall
    /\ UNCHANGED <<keyVars, gateVars, appVars, threadVars, flightVars>>

-----------------------------------------------------------------------------
(* SecurityConfig *)

Environments == {"development", "staging", "production", "test"}
ConfiguredKey == "configured-api-key"

\* os.getenv(name, default) on a variable that is unset (None) or set
getenv(variable, default) == IF variable = None THEN default ELSE Val(variable)

\* str.startswith
startswith(str, prefix) ==
    Len(str) >= Len(prefix) /\ SubSeq(str, 1, Len(prefix)) = prefix

\* int(str) on the values an operator writes and on the defaults: the number,
\* or None for the ValueError of a string that is no integer
int(str) ==
    CASE str = "0" -> Some(0)
      [] str = "1" -> Some(1)
      [] str = "3" -> Some(3)
      [] str = "10" -> Some(10)
      [] str = "10485760" -> Some(10485760)
      [] OTHER -> None

\* float(str), the same; a whole number stands for the float
float(str) ==
    CASE str = "5.0" -> Some(5)
      [] OTHER -> int(str)

\* secrets.token_urlsafe(16): 22 characters
UrlsafeTokens == {"AAAAAAAAAAAAAAAAAAAAAA", "BBBBBBBBBBBBBBBBBBBBBB"}

\* the variables of the process environment that SecurityConfig reads and that
\* decide whether it is constructed
EnvironmentInputs == {None} \cup {Some(e) : e \in Environments}
LongKey == "0123456789abcdef" \o "0123456789abcdef"
ApiKeyInputs ==
    {None, Some(LongKey), Some(SubSeq(LongKey, 1, 31)),
     Some("dev-key-" \o SubSeq(LongKey, 1, 24)), Some("test-" \o SubSeq(LongKey, 1, 27))}
LimitInputs == {None, Some("0"), Some("1"), Some("ten")}
CorsInputs == {None, Some(""), Some("https://orbitr.example")}
Environs ==
    [ENVIRONMENT : EnvironmentInputs, API_KEY : ApiKeyInputs,
     GENERATION_RATE_LIMIT : LimitInputs, MAX_REQUEST_SIZE : LimitInputs,
     MAX_GENERATION_DURATION : LimitInputs, MAX_CONCURRENT_GENERATIONS : LimitInputs,
     CORS_ALLOWED_ORIGINS : CorsInputs]

ValueError(text, errors) == [type |-> "ValueError", text |-> text, errors |-> errors]

generate_default_key(environment, token) ==
    IF environment = "production"
    THEN [outcome |-> "raised",
          value |-> Some(ValueError("API_KEY environment variable is required in production",
                                    <<>>))]
    ELSE IF environment = "test"
    THEN [outcome |-> "returned", value |-> "test-api-key-secure"]
    ELSE [outcome |-> "returned", value |-> "dev-key-" \o token]

\* the origins of CORS_ALLOWED_ORIGINS, split at commas, blanks dropped
parse_cors_origins(environment, variable) ==
    LET origins == IF variable = None
                   THEN <<"http://localhost:3000", "http://localhost:3001">>
                   ELSE IF Val(variable) = "" THEN <<>> ELSE <<Val(variable)>>
    IN  IF environment = "production" /\ origins = <<>>
        THEN [outcome |-> "raised",
              value |-> Some(ValueError("CORS_ALLOWED_ORIGINS must be configured in production",
                                        <<>>))]
        ELSE [outcome |-> "returned", value |-> origins]

\* the errors _validate_config collects, in its order
validate_config(c) ==
    LET key_errors ==
            IF c.environment = "production"
            THEN (IF startswith(c.api_key, "dev-key") \/ startswith(c.api_key, "test-")
                  THEN <<"Production API key cannot start with 'dev-key' or 'test-'">>
                  ELSE <<>>)
                 \o (IF Len(c.api_key) < 32
                     THEN <<"Production API key must be at least 32 characters">>
                     ELSE <<>>)
            ELSE <<>>
        errors ==
            key_errors
            \o (IF c.generation_limit <= 0
                THEN <<"Generation rate limit must be positive">> ELSE <<>>)
            \o (IF c.max_request_size <= 0
                THEN <<"Max request size must be positive">> ELSE <<>>)
            \o (IF c.max_generation_duration <= 0
                THEN <<"Max generation duration must be positive">> ELSE <<>>)
    IN  IF errors # <<>>
        THEN [outcome |-> "raised",
              value |-> Some(ValueError("Security configuration errors", errors))]
        ELSE [outcome |-> "returned", value |-> c]

\* SecurityConfig(): the statements of __init__ in their order. The default of
\* os.getenv("API_KEY", ...) is an argument: it is computed before the lookup,
\* whether API_KEY is set or not.
SecurityConfig(environ, token) ==
    LET environment == getenv(environ.ENVIRONMENT, "development")
        default_key == generate_default_key(environment, token)
        generation_limit == int(getenv(environ.GENERATION_RATE_LIMIT, "10"))
        max_request_size == int(getenv(environ.MAX_REQUEST_SIZE, "10485760"))
        max_generation_duration == float(getenv(environ.MAX_GENERATION_DURATION, "5.0"))
        max_concurrent == int(getenv(environ.MAX_CONCURRENT_GENERATIONS, "3"))
        cors_origins == parse_cors_origins(environment, environ.CORS_ALLOWED_ORIGINS)
        invalid_literal ==
            [outcome |-> "raised",
             value |-> Some(ValueError("invalid literal for int() with base 10", <<>>))]
    IN  IF default_key.outcome = "raised"
        THEN default_key
        ELSE IF generation_limit = None \/ max_request_size = None
        THEN invalid_literal
        ELSE IF max_generation_duration = None
        THEN [outcome |-> "raised",
              value |-> Some(ValueError("could not convert string to float", <<>>))]
        ELSE IF max_concurrent = None
        THEN invalid_literal
        ELSE IF cors_origins.outcome = "raised"
        THEN cors_origins
        ELSE validate_config(
                 [environment |-> environment,
                  api_key |-> getenv(environ.API_KEY, default_key.value),
                  generation_limit |-> Val(generation_limit),
                  max_request_size |-> Val(max_request_size),
                  max_generation_duration |-> Val(max_generation_duration),
                  max_concurrent_generations |-> Val(max_concurrent),
                  cors_origins |-> cors_origins.value])

\* the environments in which the module-level SecurityConfig() is constructed,
\* so that the program runs
StartingEnvironments ==
    {e \in Environments :
        \E token \in UrlsafeTokens : generate_default_key(e, token).outcome = "returned"}

\* MAX_FAILED_ATTEMPTS and LOCKOUT_DURATION (seconds) an operator may configure:
\* a lockout shorter than, and one longer than, the hourly cleanup period
Thresholds == {1, 2, 3}
LockoutDurations == {1, 2 * 3600}
\* API_KEY_EXPIRY: unset, or a Unix timestamp reached right after start
ExpiryInputs == {None, Some(StartSeconds)}

Config(e, x, r, n, d) ==
    [environment |-> e, api_key |-> ConfiguredKey, api_key_expiry |-> x,
     auth_config |-> [require_auth_in_dev |-> r, max_failed_attempts |-> n,
                      lockout_duration |-> d]]

\* nothing set in the environment: every os.getenv default
DefaultConfig ==
    [environment |-> "development", api_key |-> ConfiguredKey, api_key_expiry |-> None,
     auth_config |-> [require_auth_in_dev |-> FALSE, max_failed_attempts |-> 5,
                      lockout_duration |-> 900]]

\* staging with every threshold, and with the long lockout; every environment
\* the program starts in with threshold 2; an expiring configured key; REQUIRE_AUTH_IN_DEV; the defaults
SecurityConfigs ==
    {Config("staging", None, FALSE, n, 1) : n \in Thresholds}
    \cup {Config("staging", None, FALSE, 2, d) : d \in LockoutDurations}
    \cup {Config(e, None, FALSE, 2, 1) : e \in StartingEnvironments}
    \cup {Config(e, Some(StartSeconds), FALSE, 2, 1) : e \in {"staging", "test"}}
    \cup {Config("development", None, TRUE, 2, 1)}
    \cup {DefaultConfig}

is_api_key_expired ==
    IF security_config.api_key_expiry = None
    THEN FALSE
    ELSE now > Ticks(Val(security_config.api_key_expiry))

-----------------------------------------------------------------------------
(* SecurityMetrics: the abuse tracker, as one value *)

HistoryMaxLen == 100
CleanupPeriodSeconds == 3600

Ips == {"10.0.0.1", "10.0.0.2"}

Metrics == [failed |-> failed_auth_attempts, blocked |-> blocked_ips,
            last_cleanup |-> last_cleanup]

\* a deque without maxlen
DequeAppend_unbounded(q, x) ==
    Append(q, x)

\* deque(maxlen=100).append: a full deque drops its oldest entry
DequeAppend(q, x) ==
    IF Len(q) >= HistoryMaxLen THEN Append(Tail(q), x) ELSE Append(q, x)

\* a failure count over the whole history instead of the trailing window
RecentFailures_whole_history(hist) == Len(hist)

\* a window that is closed at its far end: a failure exactly lockout_duration old
\* still counts
RecentFailures_closed_window(hist) ==
    Cardinality({i \in 1..Len(hist) :
                    now - hist[i] <= Ticks(security_config.auth_config.lockout_duration)})

\* the failures of `hist' that lie within the trailing lockout window
RecentFailures(hist) ==
    Cardinality({i \in 1..Len(hist) :
                    now - hist[i] < Ticks(security_config.auth_config.lockout_duration)})

\* a tracker that is not switched off in the test environment
record_failed_auth_in_test(t, ip) ==
    LET hist == DequeAppend(t.failed[ip], now)
    IN  [t EXCEPT
           !.failed[ip] = hist,
           !.blocked[ip] =
               IF RecentFailures(hist) >= security_config.auth_config.max_failed_attempts
               THEN Some(now + Ticks(security_config.auth_config.lockout_duration))
               ELSE @]

\* a tracker that blocks only when the threshold is exceeded, not when it is met
record_failed_auth_exceeding(t, ip) ==
    IF security_config.environment = "test"
    THEN t
    ELSE LET hist == DequeAppend(t.failed[ip], now)
         IN  [t EXCEPT
                !.failed[ip] = hist,
                !.blocked[ip] =
                    IF RecentFailures(hist) > security_config.auth_config.max_failed_attempts
                    THEN Some(now + Ticks(security_config.auth_config.lockout_duration))
                    ELSE @]

record_failed_auth(t, ip) ==
    IF security_config.environment = "test"
    THEN t
    ELSE LET hist == DequeAppend(t.failed[ip], now)
         IN  [t EXCEPT
                !.failed[ip] = hist,
                !.blocked[ip] =
                    IF RecentFailures(hist) >= security_config.auth_config.max_failed_attempts
                    THEN Some(now + Ticks(security_config.auth_config.lockout_duration))
                    ELSE @]

\* is_ip_blocked: the answer, and the tracker after the passive unblock
is_ip_blocked(t, ip) ==
    IF security_config.environment = "test"
    THEN [t |-> t, value |-> FALSE]
    ELSE IF t.blocked[ip] # None
    THEN IF now < Val(t.blocked[ip])
         THEN [t |-> t, value |-> TRUE]
         ELSE [t |-> [t EXCEPT !.blocked[ip] = None], value |-> FALSE]
    ELSE [t |-> t, value |-> FALSE]

\* a cleanup that forgets every lockout, expired or not
cleanup_old_data_dropping_blocks(t) ==
    IF now - t.last_cleanup > Ticks(CleanupPeriodSeconds)
    THEN LET cutoff_time == now - Ticks(security_config.auth_config.lockout_duration)
         IN  [failed |-> [ip \in Ips |->
                            SelectSeq(t.failed[ip], LAMBDA ts : ts > cutoff_time)],
              blocked |-> [ip \in Ips |-> None],
              last_cleanup |-> now]
    ELSE t

cleanup_old_data(t) ==
    IF now - t.last_cleanup > Ticks(CleanupPeriodSeconds)
    THEN LET cutoff_time == now - Ticks(security_config.auth_config.lockout_duration)
         IN  [failed |-> [ip \in Ips |->
                            SelectSeq(t.failed[ip], LAMBDA ts : ts > cutoff_time)],
              blocked |-> [ip \in Ips |->
                            IF t.blocked[ip] # None /\ Val(t.blocked[ip]) > now
                            THEN t.blocked[ip]
                            ELSE None],
              last_cleanup |-> now]
    ELSE t

-----------------------------------------------------------------------------
(* The request path: SecurityMiddleware.dispatch, then the route's dependency
   verify_api_key *)

\* a request: the peer address, the first address of X-Forwarded-For (or None),
\* the bearer credential (or None) and whether its size or path is refused
Credentials == {None, Some(ConfiguredKey), Some("wrong-key")}
Request(h, f, c, s) == [host |-> h, forwarded |-> f, credentials |-> c, shape |-> s]
Requests ==
    {Request(h, f, c, "ok") :
        h \in Ips, f \in {None, Some("10.0.0.2")}, c \in Credentials}
    \cup {Request("10.0.0.1", None, Some(ConfiguredKey), s) : s \in {"too_large", "bad_path"}}

\* _get_client_ip: a forwarded header wins over the peer address
get_client_ip(request) ==
    IF request.forwarded # None THEN Val(request.forwarded) ELSE request.host

Response(status, detail) == [status |-> status, detail |-> detail]

\* _perform_security_checks: the tracker afterwards, and the response or None
perform_security_checks(t, request, client_ip) ==
    LET blocked == is_ip_blocked(t, client_ip)
    IN  IF blocked.value
        THEN [t |-> blocked.t,
              response |-> Some(Response(429, "Too many failed attempts. Please try again later."))]
        ELSE IF request.shape = "too_large"
        THEN [t |-> blocked.t, response |-> Some(Response(413, "Request too large"))]
        ELSE IF request.shape = "bad_path"
        THEN [t |-> blocked.t, response |-> Some(Response(400, "Invalid request"))]
        ELSE [t |-> blocked.t, response |-> None]

\* a log_auth_failure that writes the log line and leaves the tracker alone
log_auth_failure_only_logging(t, client_ip) == t

\* AuthenticationMiddleware.log_auth_failure
log_auth_failure(t, client_ip) == record_failed_auth(t, client_ip)

\* a verify_api_key that never looks at the expiry of the configured key
verify_api_key_ignoring_expiry(t, request) ==
    LET client_ip == request.host
    IN  IF /\ security_config.environment = "development"
           /\ ~security_config.auth_config.require_auth_in_dev
           /\ request.credentials = None
        THEN [t |-> t, failed |-> FALSE, response |-> Response(200, "OK")]
        ELSE IF request.credentials = None
        THEN [t |-> log_auth_failure(t, client_ip), failed |-> TRUE,
              response |-> Response(401, "API key required")]
        ELSE IF Val(request.credentials) # security_config.api_key
        THEN [t |-> log_auth_failure(t, client_ip), failed |-> TRUE,
              response |-> Response(401, "Invalid API key")]
        ELSE [t |-> t, failed |-> FALSE, response |-> Response(200, "OK")]

\* verify_api_key: the tracker afterwards, the response, and whether a failure
\* was handed to log_auth_failure
verify_api_key(t, request) ==
    LET client_ip == request.host
    IN  IF is_api_key_expired
        THEN [t |-> log_auth_failure(t, client_ip), failed |-> TRUE,
              response |-> Response(401, "API key expired")]
        ELSE IF /\ security_config.environment = "development"
                /\ ~security_config.auth_config.require_auth_in_dev
                /\ request.credentials = None
        THEN [t |-> t, failed |-> FALSE, response |-> Response(200, "OK")]
        ELSE IF request.credentials = None
        THEN [t |-> log_auth_failure(t, client_ip), failed |-> TRUE,
              response |-> Response(401, "API key required")]
        ELSE IF Val(request.credentials) # security_config.api_key
        THEN [t |-> log_auth_failure(t, client_ip), failed |-> TRUE,
              response |-> Response(401, "Invalid API key")]
        ELSE [t |-> t, failed |-> FALSE, response |-> Response(200, "OK")]

\* how many authentication failures there have been, over all clients
FailureCount == Len(failures["10.0.0.1"]) + Len(failures["10.0.0.2"])

SetMetrics(t) ==
    /\ failed_auth_attempts' = t.failed
    /\ blocked_ips' = t.blocked
    /\ last_cleanup' = t.last_cleanup

\* dispatch: the periodic cleanup, the security checks, then call_next, where the
\* protected route runs its dependency verify_api_key
dispatch(t, request) ==
    LET checked == perform_security_checks(
                       cleanup_old_data(t), request, get_client_ip(request))
    IN  IF checked.response # None
        THEN [t |-> checked.t, failed |-> FALSE, response |-> Val(checked.response)]
        ELSE verify_api_key(checked.t, request)

HandleRequest ==
    \E request \in Requests :
        /\ FailureCount < MaxFailures
        /\ LET handled == dispatch(Metrics, request)
           IN  /\ SetMetrics(handled.t)
               /\ failures' = IF handled.failed
                              THEN [failures EXCEPT ![request.host] = Append(@, now)]
                              ELSE failures
               /\ ret' = [op |-> "request", args |-> request,
                          outcome |-> "returned", value |-> handled.response]
        /\ UNCHANGED <<now, keyVars, security_config, appVars, threadVars, flightVars>>

\* the clock of the request path: half a second passes, or an hour passes
GateTicks == (now - Ticks(StartSeconds)) % Ticks(CleanupPeriodSeconds)
GateHours == (now - Ticks(StartSeconds)) \div Ticks(CleanupPeriodSeconds)

GateTick ==
    /\ GateTicks < MaxGateTicks
    /\ now' = now + 1
    /\ ret' = NoCall
    /\ UNCHANGED <<keyVars, gateVars, appVars, threadVars, flightVars>>

GateHour ==
    /\ GateHours < MaxHours
    /\ now' = now + Ticks(CleanupPeriodSeconds)
    /\ ret' = NoCall
    /\ UNCHANGED <<keyVars, gateVars, appVars, threadVars, flightVars>>

-----------------------------------------------------------------------------
(* Requests that overlap: dispatch awaits call_next between its checks and the
   route's verify_api_key, and other requests are served in between *)

\* requests that carry no forwarding header and pass the size and path checks
DirectRequests == {r \in Requests : r.forwarded = None /\ r.shape = "ok"}

\* dispatch up to `await call_next(request)'
RequestArrives ==
    \E request \in DirectRequests :
        /\ Len(in_flight) < MaxInFlight
        /\ FailureCount + Len(in_flight) < MaxFailures
        /\ LET checked == perform_security_checks(
                              cleanup_old_data(Metrics), request, get_client_ip(request))
           IN  /\ SetMetrics(checked.t)
               /\ in_flight' = IF checked.response = None
                               THEN Append(in_flight, request)
                               ELSE in_flight
               /\ ret' = IF checked.response = None
                         THEN NoCall
                         ELSE [op |-> "request", args |-> request,
                               outcome |-> "returned", value |-> Val(checked.response)]
        /\ UNCHANGED <<now, keyVars, security_config, failures, appVars, threadVars>>

\* the route's dependency verify_api_key, for one of the requests under way
RequestVerified ==
    \E i \in 1..Len(in_flight) :
        LET request == in_flight[i]
            handled == verify_api_key(Metrics, request)
        IN  /\ SetMetrics(handled.t)
            /\ failures' = IF handled.failed
                           THEN [failures EXCEPT ![request.host] = Append(@, now)]
                           ELSE failures
            /\ in_flight' = [j \in 1..(Len(in_flight) - 1) |->
                                IF j < i THEN in_flight[j] ELSE in_flight[j + 1]]
            /\ ret' = [op |-> "request", args |-> request,
                       outcome |-> "returned", value |-> handled.response]
            /\ UNCHANGED <<now, keyVars, security_config, appVars, threadVars>>

-----------------------------------------------------------------------------
(* SecurityMetrics on its own: the calls the request path makes on the tracker *)

\* the client whose failures fill a history
TrackedIp == "10.0.0.1"

\* staging, three failures to a lockout of two hours
TrackerConfig == Config("staging", None, FALSE, 3, 2 * 3600)

RecordFailedAuth ==
    /\ Len(failures[TrackedIp]) < HistoryMaxLen + MaxOverflow
    /\ SetMetrics(record_failed_auth(Metrics, TrackedIp))
    /\ failures' = [failures EXCEPT ![TrackedIp] = Append(@, now)]
    /\ ret' = [op |-> "record_failed_auth", args |-> <<TrackedIp>>,
               outcome |-> "returned", value |-> None]
    /\ UNCHANGED <<now, keyVars, security_config, appVars, threadVars, flightVars>>

CleanupOldData ==
    /\ now - last_cleanup > Ticks(CleanupPeriodSeconds)
    /\ SetMetrics(cleanup_old_data(Metrics))
    /\ ret' = [op |-> "cleanup_old_data", args |-> <<>>,
               outcome |-> "returned", value |-> None]
    /\ UNCHANGED <<now, keyVars, security_config, failures, appVars, threadVars, flightVars>>

TrackerTick ==
    /\ GateTicks < MaxTrackerTicks
    /\ now' = now + 1
    /\ ret' = NoCall
    /\ UNCHANGED <<keyVars, gateVars, appVars, threadVars, flightVars>>

\* an hour goes by; followed only from the histories that have filled
TrackerHour ==
    /\ Len(failures[TrackedIp]) >= HistoryMaxLen
    /\ GateHours < MaxHours
    /\ now' = now + Ticks(CleanupPeriodSeconds)
    /\ ret' = NoCall
    /\ UNCHANGED <<keyVars, gateVars, appVars, threadVars, flightVars>>

\* record_failed_auth for either client, at any time, locked out or not
RecordFailure ==
    \E ip \in Ips :
        /\ FailureCount < MaxRecorded
        /\ SetMetrics(record_failed_auth(Metrics, ip))
        /\ failures' = [failures EXCEPT ![ip] = Append(@, now)]
        /\ ret' = [op |-> "record_failed_auth", args |-> <<ip>>,
                   outcome |-> "returned", value |-> None]
        /\ UNCHANGED <<now, keyVars, security_config, appVars, threadVars, flightVars>>

\* is_ip_blocked for either client: the answer, and the passive unblock
IsIpBlocked ==
    \E ip \in Ips :
        /\ SetMetrics(is_ip_blocked(Metrics, ip).t)
        /\ ret' = [op |-> "is_ip_blocked", args |-> <<ip>>,
                   outcome |-> "returned", value |-> is_ip_blocked(Metrics, ip).value]
        /\ UNCHANGED <<now, keyVars, security_config, failures, appVars, threadVars,
                       flightVars>>

\* the process starts, once: security_config = SecurityConfig() at import, under
\* the variables of its environment; a failed construction leaves no
\* configuration and ends the import
ConstructSecurityConfig ==
    /\ ret = NoCall
    /\ \E environ \in Environs, token \in UrlsafeTokens :
           LET constructed == SecurityConfig(environ, token)
           IN  /\ security_config' =
                      IF constructed.outcome = "returned"
                      THEN [environment |-> constructed.value.environment,
                            api_key |-> constructed.value.api_key,
                            api_key_expiry |-> None,
                            auth_config |-> DefaultConfig.auth_config]
                      ELSE None
               /\ ret' = [op |-> "SecurityConfig", args |-> environ,
                          outcome |-> constructed.outcome, value |-> constructed.value]
    /\ UNCHANGED <<now, keyVars, failed_auth_attempts, blocked_ips, last_cleanup,
                   failures, appVars, threadVars, flightVars>>

-----------------------------------------------------------------------------
(* app.py: the /generate endpoint *)

\* the prompts and seeds a client sends; the other fields keep their defaults
Prompts == {"kick", "snare"}
SeedInputs == {None} \cup {Some(s) : s \in 0..MaxSeed}
\* np.random.randint(0, 2**32), within the bound
RandomSeeds == 0..MaxSeed

\* MAX_CONCURRENT_GENERATIONS with nothing set in the environment
max_concurrent_generations == 3
\* the seed a cache hit reports for a request without one
CachedSeedDefault == 42

GenerateRequest(prompt, seed) == [prompt |-> prompt, seed |-> seed]
GenerateRequests == {GenerateRequest(p, s) : p \in Prompts, s \in SeedInputs}

\* md5 of the JSON of the request's fields, the seed as the client sent it
get_cache_key(req) == <<"md5", req.prompt, JsonOptional(req.seed)>>

CacheKeys == {get_cache_key(q) : q \in GenerateRequests}

\* the samples a generation gives once the generators are seeded with `seed'
Audio(prompt, seed) == <<"wav", prompt, seed>>

b64encode(bytes) == <<"base64", bytes>>
b64decode(text) == text[2]

GenerateResponse(audio, name, seed, cached) ==
    [audio |-> audio, name |-> name, seed |-> seed, cached |-> cached]

App == [current_generations |-> current_generations, cache |-> cache]

\* a capacity check that lets every request through
check_generation_capacity_open(a) == Returned(a, None)

check_generation_capacity(a) ==
    IF a.current_generations >= max_concurrent_generations
    THEN Raised(a, Response(429, "Too many concurrent generations"))
    ELSE Returned(a, None)

\* what becomes of a generation that is not served from the cache
Fates == {"generated", "timeout", "error"}

\* generate_sample: the handler runs from its first line to its return without
\* giving up the event loop.  `fate' is what happens inside the try block and
\* `drawn' is what np.random.randint gives when the request carries no seed.
generate_sample(a, generate_request, fate, drawn) ==
    LET capacity == check_generation_capacity(a)
        a1 == [a EXCEPT !.current_generations = @ + 1]
        cache_key == get_cache_key(generate_request)
        seed == IF Truthy(generate_request.seed)
                THEN Val(generate_request.seed)
                ELSE drawn
        audio_base64 == b64encode(Audio(generate_request.prompt, seed))
        \* finally: current_generations = max(0, current_generations - 1)
        decremented(x) ==
            [x EXCEPT !.current_generations = IF @ - 1 > 0 THEN @ - 1 ELSE 0]
    IN  IF capacity.outcome = "raised"
        THEN capacity
        ELSE IF a1.cache[cache_key] # None
        THEN Returned(a1,
                 Some(GenerateResponse(
                          b64encode(Val(a1.cache[cache_key])),
                          <<"cached-", generate_request.prompt>>,
                          IF Truthy(generate_request.seed)
                          THEN Val(generate_request.seed)
                          ELSE CachedSeedDefault,
                          TRUE)))
        ELSE IF fate = "timeout"
        THEN Raised(decremented(a1), Response(408, "Generation timeout"))
        ELSE IF fate = "error"
        THEN Raised(decremented(a1), Response(500, "Audio generation failed"))
        ELSE Returned(
                 decremented([a1 EXCEPT !.cache[cache_key] =
                                            Some(b64decode(audio_base64))]),
                 Some(GenerateResponse(audio_base64,
                                       <<generate_request.prompt, "-", seed>>,
                                       seed, FALSE)))

GenerateSample ==
    \E generate_request \in GenerateRequests, fate \in Fates, drawn \in RandomSeeds :
        LET r == generate_sample(App, generate_request, fate, drawn)
        IN  /\ current_generations' = r.m.current_generations
            /\ cache' = r.m.cache
            /\ ret' = [op |-> "generate_sample", args |-> <<generate_request>>,
                       outcome |-> r.outcome, value |-> r.value]
            /\ first_response' =
                   IF r.outcome = "returned" /\ first_response[generate_request] = None
                   THEN [first_response EXCEPT ![generate_request] = r.value]
                   ELSE first_response
            /\ UNCHANGED <<now, keyVars, gateVars, threadVars, flightVars>>

InitApp ==
    /\ current_generations = 0
    /\ cache = [k \in CacheKeys |-> None]
    /\ first_response = [q \in GenerateRequests |-> None]

-----------------------------------------------------------------------------
(* Threads in APIKeyManager.  The manager takes no lock: a thread can be
   preempted between any two of the steps below. *)

Workers == 1..MaxWorkers

IdleWorker == [pc |-> "idle", key_id |-> None, usage_count |-> 0, keys_data |-> <<>>]

\* validate_api_key up to key_obj.is_valid(): the thread now holds the record
\* of a key it found valid
WorkerFind ==
    \E w \in Workers, api_key \in Secrets :
        LET i == FirstMatch(keys, hash_key(api_key))
        IN  /\ workers[w].pc = "idle"
            /\ i # 0
            /\ is_valid(keys[i])
            /\ validated[keys[i].key_id] < MaxUsage
            /\ workers' = [workers EXCEPT ![w] =
                              [IdleWorker EXCEPT !.pc = "update_usage",
                                                 !.key_id = Some(keys[i].key_id)]]
            /\ validated' = [validated EXCEPT ![keys[i].key_id] = @ + 1]
            /\ ret' = NoCall
            /\ UNCHANGED <<now, keyVars, gateVars, appVars, cleaner, flightVars>>

\* update_usage: last_used is stamped, and usage_count is read for the += 1
WorkerLoad ==
    \E w \in Workers :
        /\ workers[w].pc = "update_usage"
        /\ LET i == Index(keys, Val(workers[w].key_id))
           IN  /\ keys' = [keys EXCEPT ![i].last_used = update_usage(keys[i]).last_used]
               /\ workers' = [workers EXCEPT ![w].pc = "store",
                                             ![w].usage_count = keys[i].usage_count]
        /\ ret' = NoCall
        /\ UNCHANGED <<now, keys_file, disk, events, nissued, revoked, gateVars,
                       appVars, validated, cleaner, flightVars>>

\* update_usage: the sum of what was read and 1 is stored
WorkerStore ==
    \E w \in Workers :
        /\ workers[w].pc = "store"
        /\ LET i == Index(keys, Val(workers[w].key_id))
               read == [keys[i] EXCEPT !.usage_count = workers[w].usage_count]
           IN  keys' = [keys EXCEPT ![i].usage_count = update_usage(read).usage_count]
        /\ workers' = [workers EXCEPT ![w].pc = "save_keys"]
        /\ ret' = NoCall
        /\ UNCHANGED <<now, keys_file, disk, events, nissued, revoked, gateVars,
                       appVars, validated, cleaner, flightVars>>

\* save_keys: json.dumps of the map as it is now
WorkerDump ==
    \E w \in Workers :
        /\ workers[w].pc = "save_keys"
        /\ workers' = [workers EXCEPT ![w].pc = "write",
                                      ![w].keys_data = json_dumps(keys)]
        /\ ret' = NoCall
        /\ UNCHANGED <<now, keyVars, gateVars, appVars, validated, cleaner, flightVars>>

\* save_keys: the file is written, and validate_api_key returns the record
WorkerWrite ==
    \E w \in Workers :
        /\ workers[w].pc = "write"
        /\ keys_file' = Some(fernet_encrypt(workers[w].keys_data))
        /\ workers' = [workers EXCEPT ![w] = IdleWorker]
        /\ ret' = [op |-> "validate_api_key",
                   args |-> <<Secret(Val(workers[w].key_id)[2])>>,
                   outcome |-> "returned",
                   value |-> Some(Get(keys, Val(workers[w].key_id)))]
        /\ UNCHANGED <<now, keys, disk, events, nissued, revoked, gateVars,
                       appVars, validated, cleaner, flightVars>>

\* the thread of schedule_key_cleanup, in its first time.sleep(24 * 3600)
SleepingCleaner ==
    [pc |-> "sleep", slept_at |-> Ticks(StartSeconds), size |-> 0,
     expired_keys |-> <<>>, error |-> None]

\* time.sleep returns after 24 hours and cleanup_expired_keys is entered
CleanerWake ==
    /\ cleaner.pc = "sleep"
    /\ now - cleaner.slept_at >= Ticks(DaySeconds)
    /\ cleaner' = [cleaner EXCEPT !.pc = "scan"]
    /\ ret' = NoCall
    /\ UNCHANGED <<now, keyVars, gateVars, appVars, workers, validated, flightVars>>

\* for key_id, key_obj in self.keys.items(): the iteration starts
CleanerScanBegin ==
    /\ cleaner.pc = "scan"
    /\ cleaner' = [cleaner EXCEPT !.pc = "scanning", !.size = Len(keys),
                                  !.expired_keys = ExpiredKeys(keys)]
    /\ ret' = NoCall
    /\ UNCHANGED <<now, keyVars, gateVars, appVars, workers, validated, flightVars>>

\* the iteration ends: with RuntimeError (dictionary changed size during
\* iteration) when another thread has added a key since it started
CleanerScanEnd ==
    /\ cleaner.pc = "scanning"
    /\ cleaner' = IF Len(keys) # cleaner.size
                  THEN [cleaner EXCEPT !.pc = "dead", !.error = Some("RuntimeError")]
                  ELSE [cleaner EXCEPT !.pc = "remove"]
    /\ ret' = IF Len(keys) # cleaner.size
              THEN [op |-> "cleanup_expired_keys", args |-> <<>>,
                    outcome |-> "raised", value |-> Some("RuntimeError")]
              ELSE NoCall
    /\ UNCHANGED <<now, keyVars, gateVars, appVars, workers, validated, flightVars>>

\* the loop over expired_keys and the save after it; an exception ends the
\* thread, as cleanup_task catches none; otherwise the thread sleeps again
CleanerRemove ==
    /\ cleaner.pc = "remove"
    /\ LET looped == CleanupLoop(Manager, cleaner.expired_keys)
           r == IF looped.outcome = "raised"
                THEN looped
                ELSE IF cleaner.expired_keys # <<>>
                THEN save_keys(looped.m)
                ELSE looped
       IN  /\ keys' = r.m.keys
           /\ keys_file' = r.m.file
           /\ events' = r.m.events
           /\ cleaner' = IF r.outcome = "raised"
                         THEN [cleaner EXCEPT !.pc = "dead", !.error = r.value]
                         ELSE [SleepingCleaner EXCEPT !.slept_at = now]
           /\ ret' = [op |-> "cleanup_expired_keys", args |-> <<>>,
                      outcome |-> r.outcome, value |-> r.value]
    /\ UNCHANGED <<now, disk, nissued, revoked, gateVars, appVars, workers, validated, flightVars>>

\* no thread but the one that makes the calls
InitThreads ==
    /\ workers = <<>>
    /\ validated = <<>>
    /\ cleaner = <<>>
    /\ in_flight = <<>>

-----------------------------------------------------------------------------
(* Specification of the key manager: a fresh process with no key file *)

vars == <<now, keys, keys_file, disk, events, nissued, revoked, ret, security_config,
          failed_auth_attempts, blocked_ips, last_cleanup, failures,
          current_generations, cache, first_response, workers, validated, cleaner,
          in_flight>>

InitKeys ==
    /\ keys = <<>>
    /\ keys_file = None
    /\ events = {}
    /\ nissued = 0
    /\ revoked = {}
    /\ disk = "ok"

InitMetrics ==
    /\ failed_auth_attempts = [ip \in Ips |-> <<>>]
    /\ blocked_ips = [ip \in Ips |-> None]
    /\ last_cleanup = now
    /\ failures = [ip \in Ips |-> <<>>]

Init ==
    /\ now = Ticks(StartSeconds)
    /\ ret = NoCall
    /\ InitKeys
    /\ security_config = DefaultConfig
    /\ InitMetrics
    /\ InitApp
    /\ InitThreads

Next ==
    \/ GenerateApiKey
    \/ ValidateApiKey
    \/ RevokeApiKey
    \/ RotateApiKey
    \/ CleanupExpiredKeys
    \/ GetKeyInfo
    \/ ValidateWithPermissions
    \/ Tick
    \/ Day

Spec == Init /\ [][Next]_vars

-----------------------------------------------------------------------------
(* Specification of the request path: a configuration, then requests one by one *)

\* the key store: the manager over a file system that can fail
NextStore ==
    \/ LoadKeys
    \/ DiskChanges
    \/ FileDamaged
    \/ Constructed /\ GenerateApiKey
    \/ Constructed /\ ValidateApiKey
    \/ Constructed /\ RevokeApiKey

SpecStore == Init /\ [][NextStore]_vars

InitGate ==
    /\ now = Ticks(StartSeconds)
    /\ ret = NoCall
    /\ InitKeys
    /\ security_config \in SecurityConfigs
    /\ InitMetrics
    /\ InitApp
    /\ InitThreads

NextGate ==
    \/ HandleRequest
    \/ GateTick
    \/ GateHour

SpecGate == InitGate /\ [][NextGate]_vars

\* the key manager as its callers see it: what they are handed, what is kept
NextInfo ==
    \/ GenerateApiKey
    \/ RotateApiKey
    \/ ValidateApiKey
    \/ RevokeApiKey
    \/ GetKeyInfo
    \/ ListKeys
    \/ GetUsageStats
    \/ CleanupExpiredKeys
    \/ Day

SpecInfo == Init /\ [][NextInfo]_vars

\* the failure tracker under a long run of failures of one client
InitTracker ==
    /\ now = Ticks(StartSeconds)
    /\ ret = NoCall
    /\ InitKeys
    /\ security_config = TrackerConfig
    /\ InitMetrics
    /\ InitApp
    /\ InitThreads

NextTracker ==
    \/ RecordFailedAuth
    \/ CleanupOldData
    \/ TrackerTick
    \/ TrackerHour

SpecTracker == InitTracker /\ [][NextTracker]_vars

\* the tracker called at any time: staging, two or three failures to a
\* lockout of one second
InitLockout ==
    /\ now = Ticks(StartSeconds)
    /\ ret = NoCall
    /\ InitKeys
    /\ security_config \in {Config("staging", None, FALSE, n, 1) : n \in {2, 3}}
    /\ InitMetrics
    /\ InitApp
    /\ InitThreads

NextLockout ==
    \/ RecordFailure
    \/ IsIpBlocked
    \/ CleanupOldData
    \/ GateTick
    \/ GateHour

SpecLockout == InitLockout /\ [][NextLockout]_vars

\* the start of the process under every environment an operator may give it
InitConfig ==
    /\ now = Ticks(StartSeconds)
    /\ ret = NoCall
    /\ InitKeys
    /\ security_config = None
    /\ InitMetrics
    /\ InitApp
    /\ InitThreads

NextConfig == ConstructSecurityConfig

SpecConfig == InitConfig /\ [][NextConfig]_vars

\* the worker threads idle and the cleanup thread asleep
InitRunning ==
    /\ now = Ticks(StartSeconds)
    /\ ret = NoCall
    /\ InitKeys
    /\ security_config = DefaultConfig
    /\ InitMetrics
    /\ InitApp
    /\ workers = [w \in Workers |-> IdleWorker]
    /\ validated = [k \in KeyIds |-> 0]
    /\ cleaner = SleepingCleaner
    /\ in_flight = <<>>

\* threads validating keys while keys are issued
NextThreads ==
    \/ GenerateApiKey
    \/ Tick
    \/ WorkerFind
    \/ WorkerLoad
    \/ WorkerStore
    \/ WorkerDump
    \/ WorkerWrite

SpecThreads == InitRunning /\ [][NextThreads]_vars

\* the cleanup thread beside the calls of the request path
CleanerStep ==
    \/ CleanerWake
    \/ CleanerScanBegin
    \/ CleanerScanEnd
    \/ CleanerRemove

NextSweep ==
    \/ GenerateApiKey
    \/ ValidateApiKey
    \/ Tick
    \/ Day
    \/ CleanerWake
    \/ CleanerScanBegin
    \/ CleanerScanEnd
    \/ CleanerRemove

SpecSweep == InitRunning /\ [][NextSweep]_vars

\* the same under a scheduler that lets the cleanup thread run, and a clock
\* that does not stop
SpecSweepFair == SpecSweep /\ WF_vars(CleanerStep) /\ WF_vars(Day)

\* the key manager when the random tokens are not taken to be distinct
NextDraws ==
    \/ GenerateApiKeyDrawn
    \/ ValidateApiKey
    \/ RevokeApiKey
    \/ Tick

SpecDraws == Init /\ [][NextDraws]_vars

\* the request path with more than one request under way
NextOverlap ==
    \/ RequestArrives
    \/ RequestVerified
    \/ GateTick
    \/ GateHour

SpecOverlap == InitGate /\ [][NextOverlap]_vars

\* the generation endpoint: authenticated requests to /generate, one after another
NextGen == GenerateSample

SpecGen == Init /\ [][NextGen]_vars

-----------------------------------------------------------------------------
(* Properties of the key manager, checked under Spec *)

SecretOf(key_id) == Secret(key_id[2])

\* C1: generate_api_key returns (key_id, secret), and validate_api_key(secret)
\* called right after it returns the record with that key_id, its usage_count
\* gone from 0 to 1 and last_used set.
C1_IssueThenValidate ==
    ret.op = "generate_api_key" =>
        /\ ret.outcome = "returned"
        /\ ret.value = Some(<<KeyId(nissued), Secret(nissued)>>)
        /\ LET v == validate_api_key(Manager, Secret(nissued))
           IN  /\ v.outcome = "returned"
               /\ v.value # None
               /\ Val(v.value).key_id = KeyId(nissued)
               /\ Val(v.value).usage_count = 1
               /\ Val(v.value).last_used # None

\* C2: once revoke_api_key has been called on a known id, no later
\* validate_api_key call with that key's secret yields a record (it returns
\* None, or raises where the revoked key has also expired), whatever ran in
\* between; the record stays in the key map with is_active false, and
\* get_key_info returns it, until cleanup_expired_keys removes it.
C2_RevokedState ==
    \A key_id \in revoked :
        /\ LET v == validate_api_key(Manager, SecretOf(key_id))
           IN  v.outcome = "raised" \/ v.value = None
        /\ Has(keys, key_id) =>
              /\ ~Get(keys, key_id).is_active
              /\ get_key_info(Manager, key_id).value # None
              /\ ~Val(get_key_info(Manager, key_id).value).is_active

C2_RevokedStep ==
    /\ \A key_id \in revoked :
          Has(keys, key_id) /\ ~Has(keys', key_id) => ret'.op = "cleanup_expired_keys"
    /\ (ret'.op = "validate_api_key" /\ ret'.args[1] \in {SecretOf(k) : k \in revoked})
          => (ret'.outcome = "raised" \/ ret'.value = None)

C2_RevokedNeverValidates == []C2_RevokedState /\ [][C2_RevokedStep]_vars

\* C2 witness: key 1 was revoked, a second key has been issued by then, and
\* a validate_api_key call with the secret of key 1 has just returned None
\* while its record is still in the map
C2_Witness ==
    /\ KeyId(1) \in revoked
    /\ nissued = 2
    /\ Has(keys, KeyId(1))
    /\ ret.op = "validate_api_key"
    /\ ret.args = <<Secret(1)>>
    /\ ret.outcome = "returned"
    /\ ret.value = None

\* C6: for a key that is valid for use, validate_api_key_with_permissions(secret, p)
\* returns the record iff p is among its permissions, and when p is missing the
\* outcome differs from the one an invalid credential gets.
C6_ForbiddenIsDistinct ==
    \A n \in 1..MaxKeys :
        (/\ ret.op = "validate_api_key_with_permissions"
         /\ ret.args[1] = Secret(n)
         /\ Has(keys, KeyId(n))
         /\ is_valid(Get(keys, KeyId(n))))
        => LET k == Get(keys, KeyId(n))
               p == ret.args[2]
               invalid == validate_api_key_with_permissions(Manager, Secret(0), p)
           IN  IF \E i \in 1..Len(k.permissions) : k.permissions[i] = p
               THEN ret.outcome = "returned" /\ ret.value = Some(k)
               ELSE <<ret.outcome, ret.value>> # <<invalid.outcome, invalid.value>>

\* C7: after rotate_api_key(id) at time t on an active key, the old secret is
\* accepted at every time up to and including t + 24h and rejected after it,
\* whatever the old expires_at was, and the new secret is accepted from t on.
C7_RotateGrace ==
    \A n \in 1..MaxKeys :
        (/\ ret.op = "rotate_api_key"
         /\ ret.args[1] = KeyId(n)
         /\ Has(keys, KeyId(n))
         /\ Get(keys, KeyId(n)).is_active)
        => /\ Get(keys, KeyId(n)).expires_at # None
           /\ Ticks(Val(Get(keys, KeyId(n)).expires_at)) = now + Ticks(GraceSeconds)
           /\ ret.outcome = "returned"
           /\ validate_api_key(Manager, Secret(nissued)).value # None

\* C8: the record rotate_api_key(id) creates has the permissions and the name
\* the record id had at the time of rotation.
C8_RotateInherits ==
    \A n \in 1..MaxKeys :
        (/\ ret.op = "rotate_api_key"
         /\ ret.args[1] = KeyId(n)
         /\ Has(keys, KeyId(n)))
        => /\ Has(keys, KeyId(nissued))
           /\ nissued # n
           /\ Get(keys, KeyId(nissued)).permissions = Get(keys, KeyId(n)).permissions
           /\ Get(keys, KeyId(nissued)).name = Get(keys, KeyId(n)).name

\* C9: a key issued with a TTL of zero days, and any key whose expires_at is
\* in the past, is rejected by validate_api_key: the call returns None without
\* raising, leaves the usage alone, and an api_key_expired_used event is logged.
Rejected(v, key_id) ==
    /\ v.outcome = "returned"
    /\ v.value = None
    /\ v.m.keys = keys
    /\ \E e \in v.m.events : e.event_type = "api_key_expired_used" /\ e.key_id = key_id

C9_ExpiredRejected ==
    /\ (ret.op = "generate_api_key" /\ ret.args[2] = Some(0))
          => Rejected(validate_api_key(Manager, Secret(nissued)), KeyId(nissued))
    /\ \A i \in 1..Len(keys) :
          (keys[i].expires_at # None /\ Ticks(Val(keys[i].expires_at)) < now)
          => Rejected(validate_api_key(Manager, SecretOf(keys[i].key_id)), keys[i].key_id)

\* C10: cleanup_expired_keys at time now removes exactly the records with
\* expires_at set and now > expires_at + 7 days, leaves the others unchanged,
\* and saves the map, so that memory and file agree afterwards.
PastRetention(k) ==
    k.expires_at # None /\ now > Ticks(Val(k.expires_at)) + Ticks(7 * 24 * 3600)

C10_CleanupStep ==
    ret'.op = "cleanup_expired_keys" =>
        /\ keys' = SelectSeq(keys, LAMBDA k : ~PastRetention(k))
        /\ FileKeys(keys_file') = keys'

C10_CleanupExact == [][C10_CleanupStep]_vars

-----------------------------------------------------------------------------
(* Properties of the abuse tracker and the request path, checked under SpecGate *)

Threshold == security_config.auth_config.max_failed_attempts
LockoutTicks == Ticks(security_config.auth_config.lockout_duration)

\* the failures of client ip at which at least Threshold of its failures lay
\* within the trailing lockout window
Triggers(ip) ==
    {i \in 1..Len(failures[ip]) :
        Cardinality({j \in 1..i : failures[ip][i] - failures[ip][j] < LockoutTicks})
            >= Threshold}

LastTrigger(ip) == CHOOSE i \in Triggers(ip) : \A j \in Triggers(ip) : j <= i
LockedUntil(ip) == failures[ip][LastTrigger(ip)] + LockoutTicks

LockoutFollowsFailures ==
    \A ip \in Ips :
        Triggers(ip) # {} => (is_ip_blocked(Metrics, ip).value <=> now < LockedUntil(ip))

\* C3 as claimed: for every configuration with a threshold of at least 1, once
\* a client has had threshold failed authentications within the trailing
\* lockout window, is_ip_blocked(client) is true at every time before
\* lockedUntil = (time of the triggering failure) + lockout_duration and false
\* from then on.
C3_LockoutAlways == Threshold >= 1 => LockoutFollowsFailures

\* C3 as amended: the same in every environment other than test (and with a
\* threshold the 100-entry history can reach), lockedUntil being counted from
\* the latest failure that met the threshold.
C3_LockoutOutsideTest ==
    (/\ security_config.environment # "test"
     /\ Threshold >= 1
     /\ Threshold <= HistoryMaxLen)
    => LockoutFollowsFailures

\* C3 witness: a lockout that was established has run out by itself
C3_Witness ==
    /\ security_config.environment # "test"
    /\ Threshold = 2
    /\ Triggers("10.0.0.1") # {}
    /\ now >= LockedUntil("10.0.0.1")
    /\ ~is_ip_blocked(Metrics, "10.0.0.1").value
    /\ ret.op = "request"
    /\ ret.args.host = "10.0.0.1"
    /\ ret.args.forwarded = None
    /\ ret.value.status = 200

\* C4: while a client is locked out, every request of that client is answered
\* 429 before its credential is looked at, also when the credential is the
\* right one.
C4_LockedStep ==
    (/\ ret'.op = "request"
     /\ is_ip_blocked(Metrics, ret'.args.host).value)
    => ret'.value.status = 429

C4_LockedClientRejected == [][C4_LockedStep]_vars

\* what a request of `host' leaves in the failure histories when it records
\* one failure, and when it records none
HistoriesAfter(host, recorded) ==
    LET before == cleanup_old_data(Metrics).failed
    IN  IF recorded
        THEN [before EXCEPT ![host] =
                 IF Len(@) >= HistoryMaxLen THEN Append(Tail(@), now) ELSE Append(@, now)]
        ELSE before

RecordedIffUnauthorized ==
    ret'.op = "request" =>
        failed_auth_attempts' = HistoriesAfter(ret'.args.host, ret'.value.status = 401)

\* C5 as claimed: a request leaves one new entry in the failure history exactly
\* when it is rejected for its credential (401: missing, wrong or expired), and
\* none when it is rejected as locked or otherwise refused, or admitted.
C5_RecordedAlways == [][RecordedIffUnauthorized]_vars

\* C5 as amended: the same in every environment other than test.
C5_RecordedOutsideTest ==
    [][security_config.environment # "test" => RecordedIffUnauthorized]_vars

\* C5 witness: a request has just been answered 401 and its failure is the
\* newest entry of its client's history
C5_Witness ==
    /\ security_config.environment # "test"
    /\ ret.op = "request"
    /\ ret.value.status = 401
    /\ ret.args.credentials = None
    /\ failed_auth_attempts[ret.args.host] # <<>>
    /\ failed_auth_attempts[ret.args.host][Len(failed_auth_attempts[ret.args.host])] = now

-----------------------------------------------------------------------------
(* Properties of the key store, checked under SpecStore *)

Undecryptable(file) == file # None /\ ~Decrypts(Val(file))

\* C11: constructing the manager never raises: with the key file missing the
\* key map is empty, and with a file that is corrupt or was encrypted with
\* another master key the key map is empty and an api_key_load_error event has
\* been logged.
C11_LoadNeverRaises ==
    ret.op = "load_keys" =>
        /\ ret.outcome = "returned"
        /\ keys_file = None => keys = <<>>
        /\ Undecryptable(keys_file) =>
              /\ keys = <<>>
              /\ \E e \in events : e.event_type = "api_key_load_error"

\* C12: when the key file cannot be written while validate_api_key records the
\* use of a valid key, the call still returns the record, its usage updated in
\* memory.
C12_ValidateSurvivesWriteFailure ==
    \A n \in 1..MaxKeys :
        (/\ ret.op = "validate_api_key"
         /\ ret.args = <<Secret(n)>>
         /\ disk # "ok"
         /\ Has(keys, KeyId(n))
         /\ is_valid(Get(keys, KeyId(n))))
        => /\ ret.outcome = "returned"
           /\ ret.value = Some(Get(keys, KeyId(n)))

\* C13: when the key file cannot be written, generate_api_key and
\* revoke_api_key (of a known id) raise the write error to the caller:
\* generate_api_key returns no (key_id, secret), revoke_api_key does not
\* return true.
C13_WriteFailurePropagates ==
    /\ (ret.op = "generate_api_key" /\ disk # "ok")
          => (ret.outcome = "raised" /\ ret.value = Some("OSError"))
    /\ (ret.op = "revoke_api_key" /\ disk # "ok" /\ Has(keys, ret.args[1]))
          => (ret.outcome = "raised" /\ ret.value = Some("OSError"))

\* C13 witness: the revocation of a known key has just failed on a disk that
\* refuses the write, and the file still holds both records as they were
C13_Witness ==
    /\ ret.op = "revoke_api_key"
    /\ Has(keys, ret.args[1])
    /\ disk = "denied"
    /\ ret.outcome = "raised"
    /\ ret.value = Some("OSError")
    /\ Len(FileKeys(keys_file)) = 2
    /\ \A i \in 1..2 : FileKeys(keys_file)[i].is_active

\* C17: saving the key map and loading it in a fresh manager with the same
\* master key gives the same map: the same ids in the same order and the same
\* value of every field.
C17_SaveLoadRoundTrip ==
    LET saved == save_keys([Manager EXCEPT !.disk = "ok"])
        fresh == APIKeyManager(saved.m)
    IN  /\ saved.outcome = "returned"
        /\ fresh.outcome = "returned"
        /\ fresh.m.keys = keys
        /\ (ret.op = "load_keys" /\ ret.outcome = "returned") => keys = FileKeys(keys_file)

\* C17 witness: a manager has just been constructed from a file holding two
\* records, one revoked and named with an expiry, one used and without
C17_Witness ==
    /\ ret.op = "load_keys"
    /\ ret.outcome = "returned"
    /\ Len(keys) = 2
    /\ \E i \in 1..2 : ~keys[i].is_active /\ keys[i].name # None /\ keys[i].expires_at # None
    /\ \E i \in 1..2 : keys[i].usage_count > 0 /\ keys[i].last_used # None
                          /\ keys[i].expires_at = None

-----------------------------------------------------------------------------
(* Further properties of the key manager, checked under Spec *)

\* C14: what the caller of validate_api_key observes for a rejected credential
\* (return value or exception) is the same whether the credential is unknown,
\* expired or revoked.
C14_RejectionsAlike ==
    \A i \in 1..Len(keys) :
        ~is_valid(keys[i]) =>
            LET rejected == validate_api_key(Manager, SecretOf(keys[i].key_id))
                unknown == validate_api_key(Manager, Secret(0))
            IN  <<rejected.outcome, rejected.value>> = <<unknown.outcome, unknown.value>>

\* C20: in every step of the manager a record's usage_count grows by exactly
\* one when the step is a validation (validate_api_key, called directly or by
\* validate_api_key_with_permissions) that found this record valid, and is
\* unchanged in every other step: issue, revoke, rotate, cleanup, and
\* validations that are rejected.
Validating == ret'.op \in {"validate_api_key", "validate_api_key_with_permissions"}

Counted(k) ==
    /\ Validating
    /\ LET found == validate_api_key(Manager, ret'.args[1])
       IN  /\ found.outcome = "returned"
           /\ found.value # None
           /\ Val(found.value).key_id = k.key_id

C20_UsageStep ==
    /\ \A i \in 1..Len(keys) :
          Has(keys', keys[i].key_id) =>
              Get(keys', keys[i].key_id).usage_count =
                  keys[i].usage_count + (IF Counted(keys[i]) THEN 1 ELSE 0)
    /\ (ret'.op = "validate_api_key" /\ ret'.outcome = "returned" /\ ret'.value # None)
          => /\ Has(keys, Val(ret'.value).key_id)
             /\ Counted(Get(keys, Val(ret'.value).key_id))

C20_UsageCounts == [][C20_UsageStep]_vars

\* C20 witness: the second successful validation of a key has just returned
\* its record with usage_count 2, next to a key that was never used
C20_Witness ==
    /\ ret.op = "validate_api_key"
    /\ ret.outcome = "returned"
    /\ ret.value # None
    /\ Val(ret.value).usage_count = 2
    /\ Len(keys) = 2
    /\ \E i \in 1..2 : keys[i].usage_count = 0

-----------------------------------------------------------------------------
(* Further properties of the request path and the tracker, checked under SpecGate *)

\* C15: with nothing configured (every setting at its default) a request
\* without credentials to a protected endpoint is answered 401; it is admitted
\* only where the bypass was configured explicitly.
C15_NoBypassByDefault ==
    (/\ ret.op = "request"
     /\ security_config = DefaultConfig
     /\ ret.args.credentials = None
     /\ ret.args.shape = "ok")
    => ret.value.status = 401

\* C16: when authentication is required (any environment but development, or
\* require_auth_in_dev set), a request that reaches credential verification is
\* admitted iff its bearer credential equals the configured API key and the
\* configured key has not expired; every other such request is answered 401.
AuthRequired ==
    \/ security_config.environment # "development"
    \/ security_config.auth_config.require_auth_in_dev

ConfiguredKeyExpired ==
    /\ security_config.api_key_expiry # None
    /\ now > Ticks(Val(security_config.api_key_expiry))

C18_TrackerOffInTest ==
    security_config.environment = "test" =>
        \A ip \in Ips :
            /\ ~is_ip_blocked(Metrics, ip).value
            /\ record_failed_auth(Metrics, ip) = Metrics
            /\ failed_auth_attempts[ip] = <<>>
            /\ blocked_ips[ip] = None

\* C18 witness: in the test environment a client has failed more often than the
\* threshold and its last request was answered 401, not 429
C18_Witness ==
    /\ security_config.environment = "test"
    /\ Len(failures["10.0.0.1"]) > Threshold
    /\ ret.op = "request"
    /\ ret.args.host = "10.0.0.1"
    /\ ret.args.forwarded = None
    /\ ret.value.status = 401

\* C19: a lockout is established for a client only by a failure of that client
\* at which at least threshold of its failures lie within the trailing
\* lockout_duration window; older failures do not count.
FailuresInWindow(times) ==
    Cardinality({j \in 1..Len(times) : now - times[j] < LockoutTicks})

C19_EstablishedStep ==
    \A ip \in Ips :
        (blocked_ips'[ip] # None /\ blocked_ips'[ip] # blocked_ips[ip])
        => /\ ret'.op = "request"
           /\ ret'.args.host = ip
           /\ ret'.value.status = 401
           /\ failures'[ip] = Append(failures[ip], now)
           /\ FailuresInWindow(failures'[ip]) >= Threshold
           /\ blocked_ips'[ip] = Some(now + LockoutTicks)

C19_LockoutNeedsWindow == [][C19_EstablishedStep]_vars

\* C19 witness: with threshold 2, a client's second failure came a full window
\* after its first, both are still in its history, and no lockout exists
C19_Witness ==
    /\ security_config.environment = "staging"
    /\ Threshold = 2
    /\ Len(failures["10.0.0.1"]) = 2
    /\ failures["10.0.0.1"][2] - failures["10.0.0.1"][1] >= LockoutTicks
    /\ failed_auth_attempts["10.0.0.1"] = failures["10.0.0.1"]
    /\ failures["10.0.0.1"][2] = now
    /\ blocked_ips["10.0.0.1"] = None
    /\ ret.op = "request"
    /\ ret.value.status = 401

-----------------------------------------------------------------------------
(* C21: a repeated /generate request *)

\* C21: every 200 response to a /generate request carries the audio and the seed
\* of the first 200 response that the same request received
C21_RepeatSameResponse ==
    (ret.op = "generate_sample" /\ ret.outcome = "returned")
        => LET first == Val(first_response[ret.args[1]])
           IN  /\ Val(ret.value).audio = first.audio
               /\ Val(ret.value).seed = first.seed

-----------------------------------------------------------------------------
(* C22: the bounds of the generation counter *)

\* C22: current_generations stays within 0..max_concurrent_generations, and a
\* /generate request that arrives at full capacity is answered 429 and leaves
\* the counter as it was
C22_CounterBounded ==
    /\ [](current_generations \in 0..max_concurrent_generations)
    /\ [][(/\ ret'.op = "generate_sample"
           /\ current_generations >= max_concurrent_generations)
              => /\ ret'.outcome = "raised"
                 /\ Val(ret'.value).status = 429
                 /\ current_generations' = current_generations]_vars

\* a request has been turned away at full capacity
C22_Witness ==
    /\ ret.op = "generate_sample"
    /\ ret.outcome = "raised"
    /\ Val(ret.value).status = 429
    /\ current_generations = max_concurrent_generations

-----------------------------------------------------------------------------
(* C25: the generation counter after a request *)

\* C25: every /generate request, however it ends, leaves current_generations at
\* the value it had when the request arrived
C25_CounterRestored ==
    [][ret'.op = "generate_sample" => current_generations' = current_generations]_vars

-----------------------------------------------------------------------------
(* C23: where the plaintext secret and its hash may appear *)

APIKeyFields ==
    {"key_id", "key_hash", "name", "created_at", "expires_at", "last_used",
     "usage_count", "is_active", "permissions"}

Hashes == {hash_key(s) : s \in Secrets}

\* a stored record: the fields of APIKey, none of its identifiers a secret
KeepsNoSecret(k) ==
    /\ DOMAIN k = APIKeyFields
    /\ k.key_id \notin Secrets
    /\ k.key_hash \notin Secrets

\* a key description: no field for the hash or the secret, and the identifier
\* it shows is neither
ShowsNoSecret(info) ==
    /\ DOMAIN info \cap {"key_hash", "api_key", "secret"} = {}
    /\ info.key_id \notin Secrets \cup Hashes

\* C23: no record of the key map or of the key file, and no logged event, holds a
\* plaintext secret; what get_key_info, list_keys and get_usage_stats return
\* holds neither a secret nor a hash; and of all the methods only
\* generate_api_key and rotate_api_key ever hand a secret to their caller
C23_SecretNeverKept ==
    /\ \A i \in 1..Len(keys) : KeepsNoSecret(keys[i])
    /\ \A i \in 1..Len(FileKeys(keys_file)) : KeepsNoSecret(FileKeys(keys_file)[i])
    /\ \A e \in events : DOMAIN e \cap {"api_key", "secret"} = {} /\ e.key_id \notin Secrets
    /\ (ret.op = "get_key_info" /\ ret.value # None) => ShowsNoSecret(Val(ret.value))
    /\ ret.op = "list_keys"
          => \A i \in 1..Len(Val(ret.value)) : ShowsNoSecret(Val(ret.value)[i])
    /\ ret.op = "get_usage_stats"
          => DOMAIN Val(ret.value) = {"total_keys", "active_keys", "expired_keys",
                                      "total_usage", "keys_by_permission"}
    /\ (/\ ret.op \in {"validate_api_key", "validate_api_key_with_permissions"}
        /\ ret.outcome = "returned"
        /\ ret.value # None) => KeepsNoSecret(Val(ret.value))
    /\ (ret.op = "revoke_api_key" /\ ret.outcome = "returned")
          => Val(ret.value) \in BOOLEAN

\* the keys are listed while the manager holds a used key and a key file
C23_Witness ==
    /\ ret.op = "list_keys"
    /\ Len(Val(ret.value)) > 0
    /\ \E i \in 1..Len(keys) : keys[i].usage_count > 0
    /\ keys_file # None

-----------------------------------------------------------------------------
(* C24: the bound and the order of a failure history *)

\* the last n entries of a sequence
Last(q, n) == SubSeq(q, Len(q) - n + 1, Len(q))

\* C24: a client's failure history never holds more than 100 entries, it is the
\* most recent part of the failures recorded for the client, oldest first, and
\* recording into a full history drops its oldest entry
C24_HistoryBounded ==
    /\ [](\A ip \in Ips :
            /\ Len(failed_auth_attempts[ip]) <= HistoryMaxLen
            /\ Len(failed_auth_attempts[ip]) <= Len(failures[ip])
            /\ failed_auth_attempts[ip]
                   = Last(failures[ip], Len(failed_auth_attempts[ip])))
    /\ [][(/\ ret'.op = "record_failed_auth"
           /\ Len(failed_auth_attempts[ret'.args[1]]) = HistoryMaxLen)
              => failed_auth_attempts'[ret'.args[1]]
                     = Append(Tail(failed_auth_attempts[ret'.args[1]]), now)]_vars

\* a full history has taken two more failures, the later one after a tick
C24_Witness ==
    /\ ret.op = "record_failed_auth"
    /\ Len(failed_auth_attempts[TrackedIp]) = HistoryMaxLen
    /\ Len(failures[TrackedIp]) = HistoryMaxLen + 2
    /\ failed_auth_attempts[TrackedIp][1] # failed_auth_attempts[TrackedIp][HistoryMaxLen]

-----------------------------------------------------------------------------
(* C26: the identity of a client in the lockout check and in the tracker *)

\* C26: outside the test environment, a request rejected for its credential
\* leaves its failure in the history of the identity that the lockout check of
\* the same request looked at, whatever forwarding headers the request carries
C26_SameIdentity ==
    [][(/\ ret'.op = "request"
        /\ ret'.value.status = 401
        /\ security_config.environment # "test")
           => LET checked == get_client_ip(ret'.args)
              IN  failed_auth_attempts'[checked]
                      = DequeAppend(cleanup_old_data(Metrics).failed[checked], now)]_vars

-----------------------------------------------------------------------------
(* Properties of the manager under threads *)

AllIdle == \A w \in Workers : workers[w].pc = "idle"

\* C27: once the validations in progress have all returned, the usage_count of
\* every key equals the number of validations that found the key valid
C27_NoLostUpdate ==
    AllIdle => \A i \in 1..Len(keys) : keys[i].usage_count = validated[keys[i].key_id]

\* C28: once the operations in progress have all returned, the key file
\* decrypts to the map in memory
C28_FileMatchesMemory ==
    AllIdle => FileKeys(keys_file) = keys

\* C29: the cleanup thread never ends in an error, and a run of
\* cleanup_expired_keys beside other calls removes only records that are past
\* retention and not valid for use at that moment
C29_CleanupUndisturbed ==
    /\ [](cleaner.error = None)
    /\ [][ret'.op = "cleanup_expired_keys"
             => \A i \in 1..Len(keys) :
                    ~Has(keys', keys[i].key_id)
                        => PastRetention(keys[i]) /\ ~is_valid(keys[i])]_vars

\* the record `key_id' is held, in memory or in the file, and is past retention
StaleRecord(key_id) ==
    \/ Has(keys, key_id) /\ PastRetention(Get(keys, key_id))
    \/ Has(FileKeys(keys_file), key_id) /\ PastRetention(Get(FileKeys(keys_file), key_id))

Removed(key_id) == ~Has(keys, key_id) /\ ~Has(FileKeys(keys_file), key_id)

\* C30: a record that is past retention a day or more before the clock of the
\* model stops is eventually gone from the map and from the key file
C30_StaleEventuallyRemoved ==
    \A key_id \in KeyIds :
        (ElapsedDays < MaxDays /\ StaleRecord(key_id)) ~> Removed(key_id)

-----------------------------------------------------------------------------
(* C31: rotation as one step *)

\* C31: a call of rotate_api_key either returns the new id and secret, with the
\* old record's expiry set to 24 hours from now, or leaves the key map exactly
\* as it was; when it returns None or raises, the map is unchanged
C31_RotateAllOrNothing ==
    [][ret'.op = "rotate_api_key"
          => \/ /\ ret'.outcome = "returned"
                /\ ret'.value # None
                /\ Has(keys', ret'.args[1])
                /\ Get(keys', ret'.args[1]).expires_at
                       = Some(IntSeconds(now + Ticks(GraceSeconds)))
             \/ /\ ret'.outcome = "raised" \/ ret'.value = None
                /\ keys' = keys]_vars

-----------------------------------------------------------------------------
(* C32: the key map after a failed write *)

\* C32: when generate_api_key or revoke_api_key ends in the OSError of a write
\* to the key file, the key map is what it was before the call
C32_MapKeptOnWriteFailure ==
    [][(/\ ret'.op \in {"generate_api_key", "revoke_api_key"}
        /\ ret'.outcome = "raised"
        /\ Val(ret'.value) = "OSError")
           => keys' = keys]_vars

-----------------------------------------------------------------------------
(* C33: an expired key stays expired *)

-----------------------------------------------------------------------------
(* C34: how a record leaves the key map *)

\* C34: a record that is in the key map before a step and not after it was
\* removed by cleanup_expired_keys, and its expires_at lay more than 7 days in
\* the past; no other method removes a record
C34_OnlyCleanupRemoves ==
    [][\A i \in 1..Len(keys) :
          ~Has(keys', keys[i].key_id)
              => /\ ret'.op = "cleanup_expired_keys"
                 /\ PastRetention(keys[i])]_vars

\* cleanup_expired_keys has removed a record and left another
C34_Witness ==
    /\ ret.op = "cleanup_expired_keys"
    /\ Len(keys) = 1
    /\ nissued = 2

-----------------------------------------------------------------------------
(* C35: issuing a key whose id or secret is already in the map *)

\* C35: generate_api_key leaves every record that was in the map in it and
\* unchanged, whatever id and secret it draws, and validate_api_key returns a
\* record only when the hash of the secret matches exactly one record
C35_NeverReplaces ==
    /\ [][ret'.op = "generate_api_key"
             => \A i \in 1..Len(keys) :
                    /\ Has(keys', keys[i].key_id)
                    /\ Get(keys', keys[i].key_id) = keys[i]]_vars
    /\ []((/\ ret.op = "validate_api_key"
           /\ ret.outcome = "returned"
           /\ ret.value # None)
              => Cardinality({i \in 1..Len(keys) :
                                 keys[i].key_hash = hash_key(ret.args[1])}) = 1)

-----------------------------------------------------------------------------
(* C36: what cleanup_old_data leaves alone *)

InWindow(ts) == now - ts < Ticks(security_config.auth_config.lockout_duration)

\* C36: a run of cleanup_old_data changes no client's is_ip_blocked and no
\* client's count of failures inside the lockout window; the entries it drops
\* are those outside the window, the lockouts it drops have ended; and a second
\* run on the result, due or not, changes nothing
C36_CleanupKeepsStatus ==
    [][ret'.op = "cleanup_old_data"
          => /\ \A ip \in Ips :
                   /\ is_ip_blocked(Metrics, ip).value' = is_ip_blocked(Metrics, ip).value
                   /\ RecentFailures(failed_auth_attempts[ip])'
                          = RecentFailures(failed_auth_attempts[ip])
                   /\ failed_auth_attempts'[ip]
                          = SelectSeq(failed_auth_attempts[ip], InWindow)
                   /\ \/ blocked_ips'[ip] = blocked_ips[ip]
                      \/ /\ blocked_ips'[ip] = None
                         /\ blocked_ips[ip] # None
                         /\ now >= Val(blocked_ips[ip])
             /\ cleanup_old_data(Metrics)' = Metrics'
             /\ LET due == [failed |-> failed_auth_attempts', blocked |-> blocked_ips',
                            last_cleanup |-> last_cleanup]
                IN  /\ cleanup_old_data(due).failed = failed_auth_attempts'
                    /\ cleanup_old_data(due).blocked = blocked_ips']_vars

\* a cleanup has dropped failure entries of a client that is still locked out
C36_Witness ==
    /\ ret.op = "cleanup_old_data"
    /\ Len(failed_auth_attempts[TrackedIp]) > 0
    /\ Len(failed_auth_attempts[TrackedIp]) < HistoryMaxLen
    /\ is_ip_blocked(Metrics, TrackedIp).value

-----------------------------------------------------------------------------
(* C37: failed verifications of one client within one lockout window *)

\* C37: outside the test environment, also with requests of a client under way
\* at the same time, the failed credential verifications of one client that
\* lie within the trailing lockout window never number more than
\* max_failed_attempts
C37_FailuresCapped ==
    security_config.environment # "test"
        => \A ip \in Ips :
               FailuresInWindow(failures[ip])
                   <= security_config.auth_config.max_failed_attempts

-----------------------------------------------------------------------------
(* C38: failures after a lockout has run out *)

\* the client has been locked out and that lockout has run out
LockoutExpired(ip) == Triggers(ip) # {} /\ now >= LockedUntil(ip)

\* the failures of the client recorded after the one that set its last lockout
\* and lying within the trailing lockout window
NewFailuresInWindow(times, trigger) ==
    Cardinality({j \in (trigger + 1)..Len(times) : now - times[j] < LockoutTicks})

\* C38: a failure recorded for a client whose lockout has run out, the first
\* since it ran out, leaves the client not locked out when the threshold is at
\* least 2; and a failure that locks such a client out again is one at which at
\* least threshold failures later than those of the old lockout lie within the
\* trailing window
C38_ExpiredStep ==
    \A ip \in Ips :
        (/\ LockoutExpired(ip)
         /\ ret'.op = "record_failed_auth"
         /\ ret'.args[1] = ip)
        => /\ (Threshold >= 2 /\ failures[ip][Len(failures[ip])] < LockedUntil(ip))
                => ~is_ip_blocked(Metrics, ip).value'
           /\ is_ip_blocked(Metrics, ip).value'
                => /\ NewFailuresInWindow(failures'[ip], LastTrigger(ip)) >= Threshold
                   /\ blocked_ips'[ip] = Some(now + LockoutTicks)

C38_OldFailuresForgotten == [][C38_ExpiredStep]_vars

\* C38 witness: with threshold 2 the client's lockout has run out, and the one
\* failure recorded since, at the moment it ran out, has not locked it out again
C38_Witness ==
    /\ Threshold = 2
    /\ ret.op = "record_failed_auth"
    /\ ret.args[1] = "10.0.0.1"
    /\ Len(failures["10.0.0.1"]) = 3
    /\ failures["10.0.0.1"][1] = failures["10.0.0.1"][2]
    /\ failures["10.0.0.1"][3] = failures["10.0.0.1"][2] + LockoutTicks
    /\ failures["10.0.0.1"][3] = now
    /\ ~is_ip_blocked(Metrics, "10.0.0.1").value

\* the client's lockout has run out and two later failures have set a new one
C38_Relocked ==
    /\ Threshold = 2
    /\ ret.op = "record_failed_auth"
    /\ Len(failures["10.0.0.1"]) = 4
    /\ failures["10.0.0.1"][3] >= failures["10.0.0.1"][2] + LockoutTicks
    /\ is_ip_blocked(Metrics, "10.0.0.1").value

-----------------------------------------------------------------------------
(* C39: SecurityConfig() in production *)

\* what the claim asks of the environment: an API_KEY that is set, of at least
\* 32 characters, with neither prefix, and positive rate and resource limits
KeyAccepted(environ) ==
    /\ environ.API_KEY # None
    /\ Len(Val(environ.API_KEY)) >= 32
    /\ ~startswith(Val(environ.API_KEY), "dev-key")
    /\ ~startswith(Val(environ.API_KEY), "test-")

LimitsPositive(environ) ==
    \A variable \in {environ.GENERATION_RATE_LIMIT, environ.MAX_REQUEST_SIZE,
                      environ.MAX_GENERATION_DURATION, environ.MAX_CONCURRENT_GENERATIONS} :
        variable = None \/ (float(Val(variable)) # None /\ Val(float(Val(variable))) > 0)

\* C39: with ENVIRONMENT=production, SecurityConfig() is constructed if and
\* only if API_KEY is set, has at least 32 characters, starts with neither
\* 'dev-key' nor 'test-', and the rate and resource limits are positive; and
\* when it is not constructed it raises a configuration error
C39_ProductionConstructed ==
    (/\ ret.op = "SecurityConfig"
     /\ ret.args.ENVIRONMENT = Some("production"))
    => /\ ret.outcome = "returned" <=> (KeyAccepted(ret.args) /\ LimitsPositive(ret.args))
       /\ ret.outcome = "raised" => Val(ret.value).type = "ValueError"

====
